---- MODULE Spec2Model ----
(***************************************************************************)
(* Model of the watermarking pipeline of photo-timestamper                 *)
(* (src/source/core.py): StyleManager.load_style, TimeExtractor,           *)
(* ImageProcessor.process and BatchProcessor.process_batch / cancel, the   *)
(* latter run on a worker thread (src/source/ui.py ProcessingThread) while *)
(* the caller's thread may call cancel() at any moment.                    *)
(***************************************************************************)
EXTENDS Integers, Sequences, FiniteSets, TLC

\* ------------------------------------------------------------------ bounds
\* longest list of image paths handed to one process_batch call
MaxPaths == 2
\* number of process_batch invocations on the one BatchProcessor instance
MaxBatches == 2
\* number of ProcessingThreads one MainWindow starts
MaxThreads == 2

\* ------------------------------------------------------- dates and strings
\* A datetime is a pair of a calendar day and a time of day.
DateTime(d, t) == [d |-> d, t |-> t]
NoTime == DateTime(0, 0)
\* value of datetime.now() while the batch runs
NowTime == DateTime(9, 9)

\* A date string is modelled by the layout it is written in and the day and
\* time it spells.  Layouts: "%Y:%m:%d %H:%M:%S", "%Y-%m-%d %H:%M:%S",
\* "%Y-%m-%d", "junk" (matches no layout) and "" (the empty string).
Str(fmt, d, t) == [fmt |-> fmt, d |-> d, t |-> t]
EmptyStr == Str("", 0, 0)
Absent == Str("absent", 0, 0)

\* datetime.strptime(s, fmt): succeeds only when s is written in layout fmt;
\* a date-only layout gives midnight.
strptime(s, fmt) ==
  IF s.fmt = fmt
  THEN [ok |-> TRUE,
        val |-> DateTime(s.d, IF fmt = "%Y-%m-%d" THEN 0 ELSE s.t)]
  ELSE [ok |-> FALSE, val |-> NoTime]

\* ------------------------------------------------------------ input files
\* The files a batch can name.  decodable: Image.open succeeds; exif_loads:
\* piexif.load succeeds; orig / digi / dt: the three EXIF date tags (Absent
\* when the tag is missing); mtime, birthtime, ctime: the stat() times.
FileNames == {"a", "b", "c"}

File(name) ==
  CASE name = "a" -> [stem |-> "a", parent |-> "in", suffix |-> ".jpg",
                      decodable |-> TRUE, exif_loads |-> TRUE,
                      orig |-> Str("%Y:%m:%d %H:%M:%S", 1, 1),
                      digi |-> Absent, dt |-> Absent,
                      stat_ok |-> TRUE,
                      mtime |-> DateTime(2, 1), birthtime |-> DateTime(2, 2),
                      ctime |-> DateTime(2, 3)]
    [] name = "b" -> [stem |-> "b", parent |-> "in", suffix |-> ".jpg",
                      decodable |-> TRUE, exif_loads |-> TRUE,
                      orig |-> Absent, digi |-> Absent, dt |-> Absent,
                      stat_ok |-> TRUE,
                      mtime |-> DateTime(3, 1), birthtime |-> DateTime(3, 2),
                      ctime |-> DateTime(3, 3)]
    [] OTHER      -> [stem |-> "c", parent |-> "in", suffix |-> ".jpeg",
                      decodable |-> FALSE, exif_loads |-> FALSE,
                      orig |-> Absent, digi |-> Absent, dt |-> Absent,
                      stat_ok |-> TRUE,
                      mtime |-> DateTime(4, 1), birthtime |-> DateTime(4, 2),
                      ctime |-> DateTime(4, 3)]

\* --------------------------------------------------------- TimeExtractor
Ok(v) == [ok |-> TRUE, val |-> v, err |-> ""]
Fail(e) == [ok |-> FALSE, val |-> NoTime, err |-> e]

\* get_exif_datetime: the first tag that is present is parsed; any exception
\* (piexif.load or strptime) is caught and gives None (ok = FALSE).
get_exif_datetime(f) ==
  IF ~f.exif_loads THEN Fail("none")
  ELSE IF f.orig # Absent
       THEN LET p == strptime(f.orig, "%Y:%m:%d %H:%M:%S")
            IN IF p.ok THEN Ok(p.val) ELSE Fail("none")
  ELSE IF f.digi # Absent
       THEN LET p == strptime(f.digi, "%Y:%m:%d %H:%M:%S")
            IN IF p.ok THEN Ok(p.val) ELSE Fail("none")
  ELSE IF f.dt # Absent
       THEN LET p == strptime(f.dt, "%Y:%m:%d %H:%M:%S")
            IN IF p.ok THEN Ok(p.val) ELSE Fail("none")
  ELSE Fail("none")

\* mutation of get_file_datetime: a failing stat() is answered with a time
get_file_datetime_HidesStatFailure(f, type_, has_birthtime) ==
  IF type_ = "file_modified" THEN Ok(f.mtime)
  ELSE IF type_ = "file_created"
       THEN IF has_birthtime THEN Ok(f.birthtime) ELSE Ok(f.ctime)
  ELSE Fail("UnknownTimeType")

\* get_file_datetime(image_path, type_); has_birthtime: stat() offers
\* st_birthtime on this platform.
get_file_datetime(f, type_, has_birthtime) ==
  IF ~f.stat_ok THEN Fail("OSError")
  ELSE IF type_ = "file_modified" THEN Ok(f.mtime)
  ELSE IF type_ = "file_created"
       THEN IF has_birthtime THEN Ok(f.birthtime) ELSE Ok(f.ctime)
  ELSE Fail("UnknownTimeType")

\* mutation of parse_custom_time_fallback: the date-only layout is not tried
parse_custom_time_fallback_FullOnly(s) ==
  IF s # EmptyStr
  THEN LET p1 == strptime(s, "%Y-%m-%d %H:%M:%S")
       IN IF p1.ok THEN Ok(p1.val) ELSE Fail("InvalidCustomTime")
  ELSE Fail("CustomTimeNotSet")

\* the two nested strptime attempts on custom_time in the fallback branch
\* (primary "exif", fallback_mode "custom")
parse_custom_time_fallback(s) ==
  IF s # EmptyStr
  THEN LET p1 == strptime(s, "%Y-%m-%d %H:%M:%S")
       IN IF p1.ok THEN Ok(p1.val)
          ELSE LET p2 == strptime(s, "%Y-%m-%d")
               IN IF p2.ok THEN Ok(p2.val)
                  ELSE Fail("InvalidCustomTime")
  ELSE Fail("CustomTimeNotSet")

\* the two nested strptime attempts on custom_time in the primary "custom"
\* branch
parse_custom_time(s) ==
  IF s # EmptyStr
  THEN LET p1 == strptime(s, "%Y-%m-%d %H:%M:%S")
           p2 == strptime(s, "%Y-%m-%d")
       IN IF p1.ok THEN Ok(p1.val)
          ELSE IF p2.ok THEN Ok(p2.val)
          ELSE Fail("InvalidCustomTime")
  ELSE Fail("CustomTimeNotSet")

\* mutation of exif_fallback: mode "error" reads the file's modified time
exif_fallback_ErrorReadsFile(ts, f) ==
  IF ts.fallback_mode = "error"
  THEN get_file_datetime(f, "file_modified", ts.has_birthtime)
  ELSE IF ts.fallback_mode = "file_modified"
       THEN get_file_datetime(f, "file_modified", ts.has_birthtime)
  ELSE IF ts.fallback_mode = "file_created"
       THEN get_file_datetime(f, "file_created", ts.has_birthtime)
  ELSE IF ts.fallback_mode = "custom"
       THEN parse_custom_time_fallback(ts.custom_time)
  ELSE Fail("UnknownFallbackMode")

\* the fallback chain of extract, taken when get_exif_datetime gave None
exif_fallback(ts, f) ==
  IF ts.fallback_mode = "error" THEN Fail("TimeUnavailable")
  ELSE IF ts.fallback_mode = "file_modified"
       THEN get_file_datetime(f, "file_modified", ts.has_birthtime)
  ELSE IF ts.fallback_mode = "file_created"
       THEN get_file_datetime(f, "file_created", ts.has_birthtime)
  ELSE IF ts.fallback_mode = "custom"
       THEN parse_custom_time_fallback(ts.custom_time)
  ELSE Fail("UnknownFallbackMode")

\* mutation of extract: a failure is replaced by the current time
extract_DefaultsToNow(ts, f) ==
  LET r == IF ts.primary = "exif"
           THEN LET exif_time == get_exif_datetime(f)
                IN IF exif_time.ok THEN exif_time ELSE exif_fallback(ts, f)
           ELSE IF ts.primary = "custom"
                THEN parse_custom_time(ts.custom_time)
           ELSE get_file_datetime(f, ts.primary, ts.has_birthtime)
  IN IF r.ok THEN r ELSE Ok(NowTime)

\* TimeExtractor.extract for the time_source section ts of the configuration
extract(ts, f) ==
  IF ts.primary = "exif"
  THEN LET exif_time == get_exif_datetime(f)
       IN IF exif_time.ok THEN exif_time ELSE exif_fallback(ts, f)
  ELSE IF ts.primary = "custom" THEN parse_custom_time(ts.custom_time)
  ELSE get_file_datetime(f, ts.primary, ts.has_birthtime)

\* ------------------------------------------------------------ StyleManager
\* The style store on disk.  A definition file holds sections, each a
\* mapping; a mapping is modelled by the set of its items.
StyleNames == {"CANON", "BROKEN", "NOSTYLE"}
Sections == {"font", "color", "position", "format", "effects"}

\* the content of a section as written at revision rev of the file
Section(rev) == {<<"rev", rev>>}
EmptyMapping == {}
NoStyle == <<>>

\* a definition file: exists (under .yml or .yaml), wellformed (simpsave
\* can parse it), defn (the sections it holds)
StyleFile(exists, wellformed, defn) ==
  [exists |-> exists, wellformed |-> wellformed, defn |-> defn]
NoFile == StyleFile(FALSE, FALSE, <<>>)
\* the file with the sections secs, all written at revision rev
FileWith(secs, rev) == StyleFile(TRUE, TRUE, [x \in secs |-> Section(rev)])

\* the store the batches run on: CANON is complete, BROKEN has no effects
\* section, NOSTYLE has no file
StyleOnDisk(name) ==
  CASE name = "CANON"  -> FileWith(Sections, 1)
    [] name = "BROKEN" -> FileWith(Sections \ {"effects"}, 1)
    [] OTHER           -> NoFile

\* the five ss.read calls all succeed: ss.read raises on a file it cannot
\* parse and on a key the file does not hold
Readable(disk) == disk.wellformed /\ Sections \subseteq DOMAIN disk.defn

LoadResult(ok, style, cache, err, read) ==
  [ok |-> ok, style |-> style, cache |-> cache, err |-> err, read |-> read]

\* mutation of load_style_from: the cache is not consulted
load_style_from_IgnoresCache(disk, cache, name) ==
  IF ~disk.exists
  THEN LoadResult(FALSE, NoStyle, cache, "StyleNotFound", FALSE)
  ELSE IF ~Readable(disk)
  THEN LoadResult(FALSE, NoStyle, cache, "StyleUnreadable", TRUE)
  ELSE LET style == [x \in Sections |-> disk.defn[x]]
       IN LoadResult(TRUE, style,
                     [n \in DOMAIN cache \cup {name} |->
                        IF n = name THEN style ELSE cache[n]],
                     "", TRUE)

\* StyleManager.load_style(name) on the cache `cache` (a function from the
\* loaded names to their styles) when the store holds the file `disk` under
\* that name: the result, the cache afterwards, and whether ss.read was
\* called on the file.
load_style_from(disk, cache, name) ==
  IF name \in DOMAIN cache
  THEN LoadResult(TRUE, cache[name], cache, "", FALSE)
  ELSE IF ~disk.exists
  THEN LoadResult(FALSE, NoStyle, cache, "StyleNotFound", FALSE)
  ELSE IF ~Readable(disk)
  THEN LoadResult(FALSE, NoStyle, cache, "StyleUnreadable", TRUE)
  ELSE LET style == [x \in Sections |-> disk.defn[x]]
       IN LoadResult(TRUE, style,
                     [n \in DOMAIN cache \cup {name} |->
                        IF n = name THEN style ELSE cache[n]],
                     "", TRUE)

\* load_style on the store the batches run on
load_style(cache, name) == load_style_from(StyleOnDisk(name), cache, name)

\* brand_order of list_styles, shortened to its first three names
BrandOrder == <<"CANON", "NIKON", "FUJIFILM">>

\* the elements of a sequence
Range(seq) == { seq[k] : k \in 1..Len(seq) }

\* the second loop of list_styles: each name of styles not yet in
\* sorted_styles is appended
RECURSIVE AppendMissing(_, _)
AppendMissing(sorted_styles, styles) ==
  IF styles = <<>> THEN sorted_styles
  ELSE AppendMissing(IF Head(styles) \in Range(sorted_styles)
                     THEN sorted_styles
                     ELSE Append(sorted_styles, Head(styles)),
                     Tail(styles))

\* mutation of list_styles: the second loop appends every name it meets
list_styles_AppendsAll(yml, yaml) ==
  LET styles == yml \o yaml
      InStyles(name) == name \in Range(styles)
      NotBrand(name) == name \notin Range(BrandOrder)
  IN SelectSeq(BrandOrder, InStyles) \o SelectSeq(styles, NotBrand)

\* StyleManager.list_styles when glob("*.yml") yields the stems yml and
\* glob("*.yaml") the stems yaml, each in the order the directory gives
list_styles(yml, yaml) ==
  LET styles == yml \o yaml
      InStyles(name) == name \in Range(styles)
  IN AppendMissing(SelectSeq(BrandOrder, InStyles), styles)

\* ------------------------------------------------------ output path names
\* f'{index:03d}': the decimal digits of index, left-padded with zeros to a
\* width of at least three.
RECURSIVE Digits(_)
Digits(n) == IF n < 10 THEN <<n>> ELSE Append(Digits(n \div 10), n % 10)

\* mutation of Format03d: no padding
Format03d_Unpadded(index) == Digits(index)

Format03d(index) ==
  LET ds == Digits(index)
  IN IF Len(ds) >= 3 THEN ds
     ELSE [k \in 1..(3 - Len(ds)) |-> 0] \o ds

\* pattern.format(original=..., date=..., time=..., index=...): a pattern is
\* a sequence of literal pieces and of the four replacement fields.
PatternFormat(pattern, original, date, time, index) ==
  [k \in 1..Len(pattern) |->
     CASE pattern[k] = "{original}" -> <<"original", original>>
       [] pattern[k] = "{date}"     -> <<"date", date>>
       [] pattern[k] = "{time}"     -> <<"time", time>>
       [] pattern[k] = "{index}"    -> <<"index", index>>
       [] OTHER                     -> <<"literal", pattern[k]>>]

\* the directory both path generators choose
OutputDir(output, f) ==
  IF output.same_directory THEN f.parent
  ELSE IF output.custom_directory # "" THEN output.custom_directory
  ELSE f.parent

PathOf(dir, filename, suffix) ==
  [dir |-> dir, filename |-> filename, suffix |-> suffix]

\* ImageProcessor.generate_output_path(input_path, timestamp)
generate_output_path(output, f, timestamp) ==
  PathOf(OutputDir(output, f),
         PatternFormat(output.filename_pattern, f.stem, timestamp.d,
                       timestamp.t, <<0, 0, 1>>),
         f.suffix)

\* BatchProcessor._generate_indexed_output_path(processor, input_path, index)
\* when datetime.now() would give `now`
generate_indexed_output_path_at(config, f, index, now) ==
  LET e == extract(config.time_source, f)
      timestamp == IF e.ok THEN e.val ELSE now
  IN PathOf(OutputDir(config.output, f),
            PatternFormat(config.output.filename_pattern, f.stem,
                          timestamp.d, timestamp.t, Format03d(index)),
            f.suffix)

\* the same while a batch runs
generate_indexed_output_path(config, f, index) ==
  generate_indexed_output_path_at(config, f, index, NowTime)

\* ---------------------------------------------------------- ImageProcessor
\* output_path=None
NoPath == PathOf("", <<>>, "")

\* What _save_with_exif leaves at output_path: the rendered source with its
\* timestamp, and the EXIF block when it could be copied.
Written(output, f, timestamp) ==
  [src |-> f.stem, ts |-> timestamp,
   exif |-> output.preserve_exif /\ f.exif_loads]

WriteFile(fs, out, content) ==
  [p \in DOMAIN fs \cup {out} |-> IF p = out THEN content ELSE fs[p]]

\* mutation of ShouldSkip: the overwrite policy is not consulted
ShouldSkip_NeverSkips(output, fs, out) == FALSE

\* if output_path.exists() and not overwrite_existing
ShouldSkip(output, fs, out) ==
  out \in DOMAIN fs /\ ~output.overwrite_existing

ProcessResult(ret, err, cache, fs, trace) ==
  [ret |-> ret, err |-> err, cache |-> cache, fs |-> fs, trace |-> trace]

\* mutation of process: a failed extraction is replaced by the current time
process_NowOnFailure(config, cache, fs, f, style_name, output_path, save) ==
  LET ls == load_style(cache, style_name)
      x == extract(config.time_source, f)
      e == IF x.ok THEN x ELSE Ok(NowTime)
      out == IF output_path = NoPath
             THEN generate_output_path(config.output, f, e.val)
             ELSE output_path
  IN IF ~ls.ok
     THEN ProcessResult("raise", ls.err, ls.cache, fs, <<"load_style">>)
     ELSE IF ~f.decodable
     THEN ProcessResult("raise", "DecodeFailure", ls.cache, fs,
                        <<"load_style", "open">>)
     ELSE IF ShouldSkip(config.output, fs, out)
     THEN ProcessResult("false", "", ls.cache, fs,
                        <<"load_style", "open", "extract", "render",
                          "mkdir">>)
     ELSE IF save = "ok"
     THEN ProcessResult("true", "", ls.cache,
                        WriteFile(fs, out,
                                  Written(config.output, f, e.val)),
                        <<"load_style", "open", "extract", "render",
                          "mkdir", "save">>)
     ELSE ProcessResult("raise", "EncodeFailure", ls.cache, fs,
                        <<"load_style", "open", "extract", "render",
                          "mkdir", "save">>)

\* ImageProcessor.process(input_path, style_name, output_path).  save is what
\* image.save does when it is reached: "ok" or "fail" (it raises).  The
\* result is "true", "false" or "raise", with the cache and the files
\* afterwards and the trace of the steps taken.
process(config, cache, fs, f, style_name, output_path, save) ==
  LET ls == load_style(cache, style_name)
      e == extract(config.time_source, f)
      out == IF output_path = NoPath
             THEN generate_output_path(config.output, f, e.val)
             ELSE output_path
  IN IF ~ls.ok
     THEN ProcessResult("raise", ls.err, ls.cache, fs, <<"load_style">>)
     ELSE IF ~f.decodable
     THEN ProcessResult("raise", "DecodeFailure", ls.cache, fs,
                        <<"load_style", "open">>)
     ELSE IF ~e.ok
     THEN ProcessResult("raise", e.err, ls.cache, fs,
                        <<"load_style", "open", "extract">>)
     ELSE IF ShouldSkip(config.output, fs, out)
     THEN ProcessResult("false", "", ls.cache, fs,
                        <<"load_style", "open", "extract", "render",
                          "mkdir">>)
     ELSE IF save = "ok"
     THEN ProcessResult("true", "", ls.cache,
                        WriteFile(fs, out,
                                  Written(config.output, f, e.val)),
                        <<"load_style", "open", "extract", "render",
                          "mkdir", "save">>)
     ELSE ProcessResult("raise", "EncodeFailure", ls.cache, fs,
                        <<"load_style", "open", "extract", "render",
                          "mkdir", "save">>)

\* ---------------------------------------------------------- BatchProcessor
VARIABLES
  config,        \* BatchProcessor.config (fixed at construction)
  cancelled,     \* BatchProcessor._cancelled
  styles_cache,  \* StyleManager._styles_cache
  fs,            \* the output files on disk: path -> content
  batches,       \* number of process_batch invocations so far
  image_paths,   \* arguments of the running invocation
  style_name,
  progress_cb,   \* a progress_callback was supplied
  preview_cb,    \* a preview_callback was supplied
  pc,            \* position of the worker inside process_batch
  i,             \* the loop variable of enumerate(image_paths)
  results,       \* the results dict of the running invocation
  output_path,   \* the local output_path of the current iteration
  success,       \* what processor.process did last: "true", "false", "raise"
  exc,           \* the exception process_batch raised, <<>> when none
  log,           \* what the running invocation did, in order
  cancel_at,     \* history: where the worker stood when cancel() was called
  call,          \* the call under study: the operation and its arguments
  ret,           \* what that call gave back
  store,         \* the style definitions on disk: name -> definition
  threads,       \* the ProcessingThreads MainWindow has started, in order
  overlay,       \* the page's progress overlay is shown
  ui_pc          \* position of the UI thread inside _update_preview

batch_vars == <<config, cancelled, styles_cache, fs, batches, image_paths,
                style_name, progress_cb, preview_cb, pc, i, results,
                output_path, success, exc, log, cancel_at>>
\* batch_vars without the style cache
batch_rest == <<config, cancelled, fs, batches, image_paths, style_name,
                progress_cb, preview_cb, pc, i, results, output_path,
                success, exc, log, cancel_at>>
fn_vars == <<call, ret, store>>
ui_vars == <<threads, overlay, ui_pc>>
vars == <<batch_vars, fn_vars, ui_vars>>

\* the time_source sections a run is configured with
TimeSources ==
  { [primary |-> "exif", fallback_mode |-> "error",
     custom_time |-> EmptyStr, has_birthtime |-> TRUE],
    [primary |-> "exif", fallback_mode |-> "file_modified",
     custom_time |-> EmptyStr, has_birthtime |-> TRUE],
    [primary |-> "custom", fallback_mode |-> "error",
     custom_time |-> Str("%Y-%m-%d", 5, 5), has_birthtime |-> TRUE] }

\* the output sections a run is configured with
Outputs ==
  { [same_directory |-> TRUE, custom_directory |-> "",
     filename_pattern |-> <<"{original}", "_stamped">>,
     preserve_exif |-> TRUE, overwrite_existing |-> FALSE],
    [same_directory |-> TRUE, custom_directory |-> "",
     filename_pattern |-> <<"{original}", "_stamped">>,
     preserve_exif |-> TRUE, overwrite_existing |-> TRUE],
    [same_directory |-> FALSE, custom_directory |-> "out",
     filename_pattern |-> <<"{date}", "_", "{index}">>,
     preserve_exif |-> FALSE, overwrite_existing |-> FALSE] }

Configs == [time_source : TimeSources, output : Outputs]

\* the lists of paths of at most n entries
PathLists(n) == UNION { [1..k -> FileNames] : k \in 0..n }

NoResults == [success |-> 0, failed |-> 0, errors |-> <<>>]

Event(ev, item, arg) == [ev |-> ev, item |-> item, arg |-> arg]

NoCall == [op |-> "none"]

\* no call is under study
FnIdle ==
  /\ call = NoCall
  /\ ret = NoCall
  /\ store = [n \in StyleNames |-> StyleOnDisk(n)]

\* MainWindow.__init__: processing_thread = None, nothing shown
UiIdle ==
  /\ threads = <<>>
  /\ overlay = FALSE
  /\ ui_pc = "idle"

\* the state after BatchProcessor.__init__, settings aside
BatchConstructed ==
  /\ cancelled = FALSE
  /\ styles_cache = <<>>
  /\ fs = <<>>
  /\ batches = 0
  /\ image_paths = <<>>
  /\ style_name = "CANON"
  /\ progress_cb = FALSE
  /\ preview_cb = FALSE
  /\ pc = "idle"
  /\ i = 0
  /\ results = NoResults
  /\ output_path = NoPath
  /\ success = "none"
  /\ exc = <<>>
  /\ log = <<>>
  /\ cancel_at = "none"

\* the state after BatchProcessor.__init__
Init ==
  /\ config \in Configs
  /\ BatchConstructed
  /\ FnIdle
  /\ UiIdle

\* ProcessingThread.run calls process_batch(image_paths, style_name,
\* progress_callback, preview_callback); no statement of it has run yet.
Invoke ==
  /\ pc = "idle"
  /\ batches < MaxBatches
  /\ batches' = batches + 1
  /\ image_paths' \in PathLists(MaxPaths)
  /\ style_name' \in StyleNames
  /\ progress_cb' \in BOOLEAN
  /\ preview_cb' \in BOOLEAN
  /\ pc' = "called"
  /\ i' = 0
  /\ results' = NoResults
  /\ output_path' = NoPath
  /\ success' = "none"
  /\ exc' = <<>>
  /\ log' = <<>>
  /\ cancel_at' = IF cancelled THEN "stale" ELSE "none"
  /\ UNCHANGED <<config, cancelled, styles_cache, fs>>
  /\ UNCHANGED <<fn_vars, ui_vars>>

\* mutation of Reset: the flag of the previous invocation is kept
Reset_KeepsFlag ==
  /\ pc = "called"
  /\ cancelled' = cancelled
  /\ results' = NoResults
  /\ pc' = "load"
  /\ cancel_at' = cancel_at
  /\ UNCHANGED <<config, styles_cache, fs, batches, image_paths, style_name,
                 progress_cb, preview_cb, i, output_path, success, exc, log>>
  /\ UNCHANGED <<fn_vars, ui_vars>>

\* self._cancelled = False; results = {...}; total; processor
Reset ==
  /\ pc = "called"
  /\ cancelled' = FALSE
  /\ results' = NoResults
  /\ pc' = "load"
  /\ cancel_at' = cancel_at
  /\ UNCHANGED <<config, styles_cache, fs, batches, image_paths, style_name,
                 progress_cb, preview_cb, i, output_path, success, exc, log>>
  /\ UNCHANGED <<fn_vars, ui_vars>>

\* mutation of LoadStyle: the failure is folded into the returned result
LoadStyle_FoldsFailure ==
  /\ pc = "load"
  /\ LET ls == load_style(styles_cache, style_name)
     IN /\ styles_cache' = ls.cache
        /\ IF ls.ok
           THEN /\ pc' = "check"
                /\ UNCHANGED <<results, exc>>
           ELSE /\ pc' = "returned"
                /\ results' = [results EXCEPT !.errors =
                                 Append(@, <<"Failed to load style", ls.err>>)]
                /\ exc' = exc
  /\ UNCHANGED <<config, cancelled, fs, batches, image_paths, style_name,
                 progress_cb, preview_cb, i, output_path, success, log,
                 cancel_at>>
  /\ UNCHANGED <<fn_vars, ui_vars>>

\* try: style = self.style_manager.load_style(style_name) except: raise
LoadStyle ==
  /\ pc = "load"
  /\ LET ls == load_style(styles_cache, style_name)
     IN /\ styles_cache' = ls.cache
        /\ IF ls.ok
           THEN /\ pc' = "check"
                /\ UNCHANGED <<results, exc>>
           ELSE /\ pc' = "raised"
                /\ results' = [results EXCEPT !.errors =
                                 Append(@, <<"Failed to load style", ls.err>>)]
                /\ exc' = <<"Failed to load style", ls.err>>
  /\ UNCHANGED <<config, cancelled, fs, batches, image_paths, style_name,
                 progress_cb, preview_cb, i, output_path, success, log,
                 cancel_at>>
  /\ UNCHANGED <<fn_vars, ui_vars>>

\* mutation of CheckCancelled: the loop never tests the flag
CheckCancelled_NoBreak ==
  /\ pc = "check"
  /\ IF i >= Len(image_paths)
     THEN pc' = "returned"
     ELSE pc' = "progress"
  /\ UNCHANGED <<config, cancelled, styles_cache, fs, batches, image_paths,
                 style_name, progress_cb, preview_cb, i, results,
                 output_path, success, exc, log, cancel_at>>
  /\ UNCHANGED <<fn_vars, ui_vars>>

\* for i, image_path in enumerate(image_paths): if self._cancelled: break
\* and, when the loop is over, return results
CheckCancelled ==
  /\ pc = "check"
  /\ IF i >= Len(image_paths) \/ cancelled
     THEN pc' = "returned"
     ELSE pc' = "progress"
  /\ UNCHANGED <<config, cancelled, styles_cache, fs, batches, image_paths,
                 style_name, progress_cb, preview_cb, i, results,
                 output_path, success, exc, log, cancel_at>>
  /\ UNCHANGED <<fn_vars, ui_vars>>

\* mutation of Progress: the 0-based loop variable is reported
Progress_ZeroBased ==
  /\ pc = "progress"
  /\ log' = IF progress_cb
            THEN Append(log, Event("progress", i, Len(image_paths)))
            ELSE log
  /\ pc' = "preview"
  /\ UNCHANGED <<config, cancelled, styles_cache, fs, batches, image_paths,
                 style_name, progress_cb, preview_cb, i, results,
                 output_path, success, exc, cancel_at>>
  /\ UNCHANGED <<fn_vars, ui_vars>>

\* if progress_callback: progress_callback(i + 1, total, image_path.name)
Progress ==
  /\ pc = "progress"
  /\ log' = IF progress_cb
            THEN Append(log, Event("progress", i + 1, Len(image_paths)))
            ELSE log
  /\ pc' = "preview"
  /\ UNCHANGED <<config, cancelled, styles_cache, fs, batches, image_paths,
                 style_name, progress_cb, preview_cb, i, results,
                 output_path, success, exc, cancel_at>>
  /\ UNCHANGED <<fn_vars, ui_vars>>

\* mutation of Preview: a preview failure is not caught, it fails the item
\* and leaves process_batch
Preview_Propagates ==
  /\ pc = "preview"
  /\ \E cb_raises \in BOOLEAN :
       LET f == File(image_paths[i + 1])
           e == extract(config.time_source, f)
           failed == preview_cb /\ (~f.decodable \/ ~e.ok \/ cb_raises)
       IN /\ log' = IF ~preview_cb THEN log
                    ELSE IF failed
                    THEN Append(log, Event("preview_failed", i + 1, "raise"))
                    ELSE Append(log, Event("preview", i + 1, "delivered"))
          /\ pc' = IF failed THEN "raised" ELSE "path"
          /\ results' = IF failed
                        THEN [results EXCEPT !.failed = @ + 1]
                        ELSE results
          /\ exc' = IF failed THEN <<"Processing failed", "preview">> ELSE exc
  /\ UNCHANGED <<config, cancelled, styles_cache, fs, batches, image_paths,
                 style_name, progress_cb, preview_cb, i, output_path,
                 success, cancel_at>>
  /\ UNCHANGED <<fn_vars, ui_vars>>

\* if preview_callback: try: open, extract, render_preview, callback
\* except Exception: log.  cb_raises: the callback itself raises.
Preview ==
  /\ pc = "preview"
  /\ \E cb_raises \in BOOLEAN :
       LET f == File(image_paths[i + 1])
           e == extract(config.time_source, f)
       IN log' = IF ~preview_cb THEN log
                 ELSE IF ~f.decodable \/ ~e.ok
                 THEN Append(log, Event("preview_failed", i + 1, "render"))
                 ELSE IF cb_raises
                 THEN Append(log, Event("preview_failed", i + 1, "callback"))
                 ELSE Append(log, Event("preview", i + 1, "delivered"))
  /\ pc' = "path"
  /\ UNCHANGED <<config, cancelled, styles_cache, fs, batches, image_paths,
                 style_name, progress_cb, preview_cb, i, results,
                 output_path, success, exc, cancel_at>>
  /\ UNCHANGED <<fn_vars, ui_vars>>

\* mutation of GeneratePath: the flag is tested inside the item, which is
\* abandoned when it is set
GeneratePath_Preempted ==
  /\ pc = "path"
  /\ IF cancelled
     THEN /\ pc' = "returned"
          /\ UNCHANGED <<output_path, log>>
     ELSE /\ output_path' = generate_indexed_output_path(
                               config, File(image_paths[i + 1]), i + 1)
          /\ log' = Append(log, Event("path", i + 1, output_path'))
          /\ pc' = "process"
  /\ UNCHANGED <<config, cancelled, styles_cache, fs, batches, image_paths,
                 style_name, progress_cb, preview_cb, i, results, success,
                 exc, cancel_at>>
  /\ UNCHANGED <<fn_vars, ui_vars>>

\* output_path = self._generate_indexed_output_path(processor, path, i + 1)
GeneratePath ==
  /\ pc = "path"
  /\ output_path' = generate_indexed_output_path(
                      config, File(image_paths[i + 1]), i + 1)
  /\ log' = Append(log, Event("path", i + 1, output_path'))
  /\ pc' = "process"
  /\ UNCHANGED <<config, cancelled, styles_cache, fs, batches, image_paths,
                 style_name, progress_cb, preview_cb, i, results, success,
                 exc, cancel_at>>
  /\ UNCHANGED <<fn_vars, ui_vars>>

\* the trace of one process call as events of item n
TraceEvents(trace, n) == [k \in 1..Len(trace) |-> Event(trace[k], n, "process")]

\* mutation of ProcessItem: a skipped item is reported but not counted
ProcessItem_SkipNotCounted ==
  /\ pc = "process"
  /\ \E save \in {"ok", "fail"} :
       LET name == image_paths[i + 1]
           r == process(config, styles_cache, fs, File(name), style_name,
                        output_path, save)
       IN /\ styles_cache' = r.cache
          /\ fs' = r.fs
          /\ log' = log \o TraceEvents(r.trace, i + 1)
          /\ success' = r.ret
          /\ IF r.ret = "true"
             THEN /\ results' = [results EXCEPT !.success = @ + 1]
                  /\ pc' = "check"
                  /\ i' = i + 1
                  /\ exc' = exc
             ELSE IF r.ret = "false"
             THEN /\ results' = [results EXCEPT
                                   !.errors = Append(@, <<"Processing failed",
                                                          name>>)]
                  /\ pc' = "check"
                  /\ i' = i + 1
                  /\ exc' = exc
             ELSE /\ results' = [results EXCEPT
                                   !.failed = @ + 1,
                                   !.errors = Append(@, <<name, r.err>>)]
                  /\ pc' = "raised"
                  /\ i' = i
                  /\ exc' = <<"Processing failed", name, r.err>>
  /\ UNCHANGED <<config, cancelled, batches, image_paths, style_name,
                 progress_cb, preview_cb, output_path, cancel_at>>
  /\ UNCHANGED <<fn_vars, ui_vars>>

\* try: success = processor.process(...) ... except Exception: ... raise
ProcessItem ==
  /\ pc = "process"
  /\ \E save \in {"ok", "fail"} :
       LET name == image_paths[i + 1]
           r == process(config, styles_cache, fs, File(name), style_name,
                        output_path, save)
       IN /\ styles_cache' = r.cache
          /\ fs' = r.fs
          /\ log' = log \o TraceEvents(r.trace, i + 1)
          /\ success' = r.ret
          /\ IF r.ret = "true"
             THEN /\ results' = [results EXCEPT !.success = @ + 1]
                  /\ pc' = "check"
                  /\ i' = i + 1
                  /\ exc' = exc
             ELSE IF r.ret = "false"
             THEN /\ results' = [results EXCEPT
                                   !.failed = @ + 1,
                                   !.errors = Append(@, <<"Processing failed",
                                                          name>>)]
                  /\ pc' = "check"
                  /\ i' = i + 1
                  /\ exc' = exc
             ELSE /\ results' = [results EXCEPT
                                   !.failed = @ + 1,
                                   !.errors = Append(@, <<name, r.err>>)]
                  /\ pc' = "raised"
                  /\ i' = i
                  /\ exc' = <<"Processing failed", name, r.err>>
  /\ UNCHANGED <<config, cancelled, batches, image_paths, style_name,
                 progress_cb, preview_cb, output_path, cancel_at>>
  /\ UNCHANGED <<fn_vars, ui_vars>>

\* the signals the callbacks _on_progress and _on_preview emitted during
\* the run, in order: one per callback call
IsCallback(e) == e.ev \in {"progress", "preview"}
CallbackSignals(events) ==
  LET called == SelectSeq(events, IsCallback)
  IN [k \in 1..Len(called) |->
        [signal |-> called[k].ev, item |-> called[k].item]]

\* mutation of run_signal: finished is emitted whatever process_batch did
run_signal_AlwaysFinished(at, res, e) ==
  [signal |-> "finished", results |-> res]

\* ProcessingThread.run: try: results = process_batch(...);
\* self.finished.emit(results) except Exception as e: self.error.emit(str(e))
run_signal(at, res, e) ==
  IF at = "returned"
  THEN [signal |-> "finished", results |-> res]
  ELSE [signal |-> "error", message |-> e]

\* process_batch has returned its results or raised, and run() emits
\* finished or error; the arguments and locals of process_batch are gone.
\* ret keeps what the run emitted, with how process_batch ended and the
\* tallies it had accumulated.
RunEmits ==
  /\ pc \in {"returned", "raised"}
  /\ pc' = "emitted"
  /\ image_paths' = <<>>
  /\ style_name' = "CANON"
  /\ progress_cb' = FALSE
  /\ preview_cb' = FALSE
  /\ i' = 0
  /\ results' = NoResults
  /\ output_path' = NoPath
  /\ success' = "none"
  /\ exc' = <<>>
  /\ log' = <<>>
  /\ cancel_at' = IF cancelled THEN "idle" ELSE "none"
  /\ ret' = [op |-> "run",
             emitted |-> CallbackSignals(log) \o <<run_signal(pc, results, exc)>>,
             ended |-> pc,
             tallies |-> results]
  /\ UNCHANGED <<config, cancelled, styles_cache, fs, batches>>
  /\ UNCHANGED <<call, store, ui_vars>>

\* ProcessingThread.run is over: the thread ends and the signal has gone
RunEnds ==
  /\ pc = "emitted"
  /\ pc' = "idle"
  /\ ret' = NoCall
  /\ UNCHANGED <<config, cancelled, styles_cache, fs, batches, image_paths,
                 style_name, progress_cb, preview_cb, i, results,
                 output_path, success, exc, log, cancel_at>>
  /\ UNCHANGED <<call, store, ui_vars>>

\* where a cancel() call finds the worker: between two invocations, after
\* the call and before its first statement, between two items (before the
\* loop's next test of the flag), or inside an item
CancelPoint(at) ==
  CASE at \in {"idle", "returned", "raised", "emitted"} -> "idle"
    [] at = "called" -> "called"
    [] at \in {"load", "check"} -> "boundary"
    [] OTHER -> "inflight"

\* BatchProcessor.cancel(), called from the caller's thread at any moment
Cancel ==
  /\ ~cancelled
  /\ cancelled' = TRUE
  /\ cancel_at' = CancelPoint(pc)
  /\ UNCHANGED <<config, styles_cache, fs, batches, image_paths, style_name,
                 progress_cb, preview_cb, pc, i, results, output_path,
                 success, exc, log>>
  /\ UNCHANGED <<fn_vars, ui_vars>>

Next ==
  \/ Invoke
  \/ Reset
  \/ LoadStyle
  \/ CheckCancelled
  \/ Progress
  \/ Preview
  \/ GeneratePath
  \/ ProcessItem
  \/ RunEmits
  \/ RunEnds
  \/ Cancel

Spec == Init /\ [][Next]_vars

\* ------------------------------------------------------------ properties
\* items the running invocation has tallied
Counted == results.success + results.failed

\* the positions of the log that hold an event ev of item n
EventsAt(ev, n) == { k \in 1..Len(log) : log[k].ev = ev /\ log[k].item = n }

\* nothing at all was done for an item after item n
NoEventsBeyond(n) == \A k \in 1..Len(log) : log[k].item <= n

\* process_batch left by its exception for the failed upfront style load
StyleLoadRaised == pc = "raised" /\ exc[1] = "Failed to load style"

\* process_batch left by the exception it raises for a failed item
ItemRaised == pc = "raised" /\ exc[1] = "Processing failed"

\* C1: a per-item failure (process raises for an item) increments
\* failed_count and appends the item's message, and the batch goes on: the
\* invocation is never left by an exception once an item has been tallied
\* as failed.
C1_PerItemFailureContinues ==
  results.failed > 0 => pc # "raised"

\* C2: without a cancel that takes effect and with the style loaded, an
\* invocation that is over has returned a result with
\* success_count + failed_count = N.
C2_CountsAddUpToN ==
  (pc \in {"returned", "raised"} /\ ~cancelled /\ ~StyleLoadRaised
     /\ batches > 0)
    => (pc = "returned" /\ Counted = Len(image_paths))

\* C3: when cancel() is called at the loop's test, after item k and before
\* item k+1, the worker's next step returns the result with
\* success_count + failed_count = k, and nothing (no progress, preview,
\* extraction, path or save) has been or is done for the items after k.
C3_CancelBetweenItems ==
  [][(cancel_at = "boundary" /\ cancelled /\ pc = "check")
       => /\ pc' = "returned"
          /\ Counted' = i
          /\ results' = results
          /\ log' = log
          /\ fs' = fs
          /\ NoEventsBeyond(i)]_vars

C3_Witness ==
  /\ pc = "returned"
  /\ cancel_at = "boundary"
  /\ i >= 1
  /\ i < Len(image_paths)
  /\ Counted = i
  /\ NoEventsBeyond(i)

C5_ResetOnEveryInvocation ==
  cancel_at = "stale" =>
    /\ pc = "called" \/ ~cancelled
    /\ pc = "returned" => (i = Len(image_paths) /\ Counted = Len(image_paths))

C5_Witness ==
  /\ cancel_at = "stale"
  /\ pc = "returned"
  /\ batches >= 2
  /\ Len(image_paths) >= 1
  /\ results.success = Len(image_paths)

\* the store cannot deliver the style named in the call
BadStyle ==
  ~(StyleOnDisk(style_name).exists /\ Readable(StyleOnDisk(style_name)))

\* C6: when the upfront load_style fails, process_batch is left by an
\* exception before anything was done for any file: no callback, no image
\* opened, nothing written, nothing tallied.
C6_StyleFailureAborts ==
  (BadStyle /\ pc \notin {"idle", "called", "load", "emitted"})
    => /\ StyleLoadRaised
       /\ log = <<>>
       /\ i = 0
       /\ Counted = 0
       /\ success = "none"

C6_Witness ==
  /\ StyleLoadRaised
  /\ BadStyle
  /\ Len(image_paths) >= 1
  /\ progress_cb
  /\ preview_cb
  /\ log = <<>>

IsProgress(e) == e.ev = "progress"
ProgressEvents == SelectSeq(log, IsProgress)

\* the number a sequence of decimal digits denotes
RECURSIVE DigitsValue(_)
DigitsValue(ds) ==
  IF ds = <<>> THEN 0
  ELSE 10 * DigitsValue(SubSeq(ds, 1, Len(ds) - 1)) + ds[Len(ds)]

\* C7: the items are visited in input order; the progress callback gets
\* current = 1, 2, ... without gap or repeat and total = len(paths); it
\* comes before anything else done for its item; and the {index} of item
\* i's output name spells the same i.
C7_InputOrderAndIndex ==
  /\ \A k, m \in 1..Len(log) : k < m => log[k].item <= log[m].item
  /\ progress_cb =>
       /\ \A k \in 1..Len(ProgressEvents) :
            /\ ProgressEvents[k].item = k
            /\ ProgressEvents[k].arg = Len(image_paths)
       /\ \A k \in 1..Len(log) :
            log[k].ev # "progress" =>
              \E m \in 1..(k - 1) :
                log[m].ev = "progress" /\ log[m].item = log[k].item
       /\ pc \in {"check", "returned"} => Len(ProgressEvents) = i
  /\ \A k \in 1..Len(log) :
       log[k].ev = "path" =>
         \A j \in 1..Len(log[k].arg.filename) :
           log[k].arg.filename[j][1] = "index" =>
             /\ DigitsValue(log[k].arg.filename[j][2]) = log[k].item
             /\ Len(log[k].arg.filename[j][2]) = 3

C7_Witness ==
  /\ pc = "returned"
  /\ progress_cb
  /\ preview_cb
  /\ Len(image_paths) >= 2
  /\ i = Len(image_paths)
  /\ Len(ProgressEvents) = Len(image_paths)
  /\ EventsAt("save", 2) # {}
  /\ \E j \in 1..Len(config.output.filename_pattern) :
       config.output.filename_pattern[j] = "{index}"

\* C8: producing or delivering the preview, failing or not, changes nothing
\* the rest of the item or the later items depend on: the step always goes
\* on to the item's path synthesis and leaves the tallies, the files, the
\* style cache and the loop position as they were; an item whose preview
\* failed is processed all the same.
C8_PreviewFailureSwallowed ==
  /\ [][(pc = "preview" /\ pc' # "preview")
          => /\ pc' = "path"
             /\ results' = results
             /\ fs' = fs
             /\ styles_cache' = styles_cache
             /\ i' = i
             /\ success' = success
             /\ exc' = exc
             /\ cancelled' = cancelled]_vars
  /\ [](\A n \in 1..Len(image_paths) :
          (EventsAt("preview_failed", n) # {} /\ ~(pc = "path" /\ n = i + 1))
            => EventsAt("load_style", n) # {} \/ (pc = "process" /\ n = i + 1))

C8_Witness ==
  /\ pc = "returned"
  /\ EventsAt("preview_failed", 1) # {}
  /\ EventsAt("save", 1) # {}
  /\ results.success = Len(image_paths)
  /\ Len(image_paths) >= 2

\* the process call of this step got as far as ev
Did(ev) == \E k \in (Len(log) + 1)..Len(log') : log'[k].ev = ev

\* C9: a process call that reaches the existence test with
\* overwrite_existing = false and the target present returns false without
\* raising and writes nothing (the file stays as it was); otherwise it goes
\* on to the save, and a completed save returns true and leaves the rendered
\* source at the target.
C9_SkipLeavesTargetUntouched ==
  [][(pc = "process" /\ pc' # "process" /\ Did("mkdir"))
       => IF output_path \in DOMAIN fs /\ ~config.output.overwrite_existing
          THEN /\ success' = "false"
               /\ fs' = fs
               /\ ~Did("save")
          ELSE /\ Did("save")
               /\ success' \in {"true", "raise"}
               /\ success' = "raise" => fs' = fs
               /\ success' = "true" =>
                    /\ output_path \in DOMAIN fs'
                    /\ fs'[output_path].src = image_paths[i + 1]]_vars

C9_Witness ==
  /\ pc = "check"
  /\ success = "false"
  /\ ~config.output.overwrite_existing
  /\ output_path \in DOMAIN fs
  /\ EventsAt("mkdir", i) # {}
  /\ EventsAt("save", i) = {}

\* C10: when process returns false for an item (its target exists and
\* overwrite_existing is false) no message is appended to the errors list.
C10_SkipAddsNoErrorText ==
  [][(pc = "process" /\ pc' # "process" /\ success' = "false")
       => results'.errors = results.errors]_vars

\* ---------------------------------- TimeExtractor.extract on any input
\* the values a time_source section can carry; "other" is a value outside
\* the enumeration
TimePrimaries == {"exif", "custom", "file_modified", "file_created", "other"}
FallbackModes == {"error", "file_modified", "file_created", "custom", "other"}
CustomTimes ==
  { EmptyStr, Str("%Y-%m-%d %H:%M:%S", 5, 5), Str("%Y-%m-%d", 6, 6),
    Str("junk", 0, 0) }
AnyTimeSources ==
  [primary : TimePrimaries, fallback_mode : FallbackModes,
   custom_time : CustomTimes, has_birthtime : BOOLEAN]

\* an EXIF date tag: missing, well-formed, or present but not a date
ExifFormat == "%Y:%m:%d %H:%M:%S"
TagValues(d, t) == {Absent, Str(ExifFormat, d, t), Str("junk", 0, 0)}

\* the files extract can be handed: every state of the three tags, of
\* piexif.load and of stat()
AnyFiles ==
  [stem : {"p"}, parent : {"in"}, suffix : {".jpg"}, decodable : {TRUE},
   exif_loads : BOOLEAN,
   orig : TagValues(1, 1), digi : TagValues(1, 2), dt : TagValues(1, 3),
   stat_ok : BOOLEAN,
   mtime : {DateTime(2, 1)}, birthtime : {DateTime(2, 2)},
   ctime : {DateTime(2, 3)}]

\* a BatchProcessor that is constructed and never run
BatchUnused ==
  /\ config = CHOOSE c \in Configs : TRUE
  /\ BatchConstructed

\* a TimeExtractor built from any time_source section, about to be asked
\* for the time of any file
InitExtract ==
  /\ call \in [op : {"extract"}, ts : AnyTimeSources, f : AnyFiles]
  /\ ret = NoCall
  /\ store = [n \in StyleNames |-> StyleOnDisk(n)]
  /\ UiIdle
  /\ BatchUnused

\* extract(image_path) runs to its return or its raise
Extract ==
  /\ call.op = "extract"
  /\ ret = NoCall
  /\ ret' = extract(call.ts, call.f)
  /\ UNCHANGED <<batch_vars, call, store, ui_vars>>

SpecExtract == InitExtract /\ [][Extract]_vars

\* extract has returned or raised
Extracted == call.op = "extract" /\ ret # NoCall

\* the times the file's EXIF tags spell
ExifTimes(f) ==
  IF f.exif_loads
  THEN { DateTime(s.d, s.t) :
           s \in { x \in {f.orig, f.digi, f.dt} : x.fmt = ExifFormat } }
  ELSE {}

\* the time a custom_time string spells, if any
CustomTimeValues(s) ==
  IF s.fmt = "%Y-%m-%d %H:%M:%S" THEN {DateTime(s.d, s.t)}
  ELSE IF s.fmt = "%Y-%m-%d" THEN {DateTime(s.d, 0)}
  ELSE {}

\* the filesystem times a mode names
FileTimes(f, mode) ==
  IF mode = "file_modified" THEN {f.mtime}
  ELSE IF mode = "file_created" THEN {f.birthtime, f.ctime}
  ELSE {}

\* the times of the sources the configuration selects
SelectedSourceTimes(ts, f) ==
  IF ts.primary = "exif"
  THEN ExifTimes(f) \cup
       (IF ts.fallback_mode = "custom" THEN CustomTimeValues(ts.custom_time)
        ELSE FileTimes(f, ts.fallback_mode))
  ELSE IF ts.primary = "custom" THEN CustomTimeValues(ts.custom_time)
  ELSE FileTimes(f, ts.primary)

\* C11: extract never silently defaults.  For every primary, fallback_mode,
\* custom_time and file state, a returned timestamp is one of the times of
\* the sources the configuration selects (EXIF, the named filesystem time,
\* the parsed custom_time) and is not the current time; otherwise the
\* call raises a named failure.
C11_NeverSilentlyDefaults ==
  Extracted =>
    IF ret.ok
    THEN ret.val \in SelectedSourceTimes(call.ts, call.f) /\ ret.val # NowTime
    ELSE ret.err # ""

\* extract raised because no source could give a time
C11_Witness ==
  /\ Extracted
  /\ call.ts.primary = "exif"
  /\ call.ts.fallback_mode = "custom"
  /\ call.ts.custom_time = Str("junk", 0, 0)
  /\ ExifTimes(call.f) = {}
  /\ ~ret.ok

\* C12: with primary "exif" and a file that has no readable EXIF time,
\* fallback_mode "error" fails with the time-unavailable error whatever
\* stat() and custom_time would give (they are not consulted), while
\* "file_modified" gives the file's modified time and "file_created" its
\* birth time, or its metadata-change time where stat() has no birth time.
C12_ExifFallbackChain ==
  (Extracted /\ call.ts.primary = "exif" /\ ExifTimes(call.f) = {}) =>
    /\ call.ts.fallback_mode = "error" => ret = Fail("TimeUnavailable")
    /\ (call.ts.fallback_mode = "file_modified" /\ call.f.stat_ok) =>
         ret = Ok(call.f.mtime)
    /\ (call.ts.fallback_mode = "file_created" /\ call.f.stat_ok) =>
         ret = Ok(IF call.ts.has_birthtime THEN call.f.birthtime
                  ELSE call.f.ctime)

\* mode "error" on a file without EXIF time whose stat() would fail and
\* with a well-formed custom_time at hand: the time-unavailable error
C12_Witness ==
  /\ Extracted
  /\ call.ts.primary = "exif"
  /\ call.ts.fallback_mode = "error"
  /\ call.ts.custom_time = Str("%Y-%m-%d", 6, 6)
  /\ ExifTimes(call.f) = {}
  /\ ~call.f.stat_ok
  /\ ret = Fail("TimeUnavailable")

KnownPrimaries == {"exif", "custom", "file_modified", "file_created"}
KnownFallbackModes == {"error", "file_modified", "file_created", "custom"}
\* the two raises that name an unknown mode
UnknownModeErrors == {"UnknownTimeType", "UnknownFallbackMode"}

\* C13: every unknown enum value makes extract fail with the
\* unknown-time-mode error: an unknown primary whatever the state of the
\* file, an unknown fallback_mode whether or not the file carries EXIF time.
C13_UnknownModesFailFast ==
  Extracted =>
    /\ call.ts.primary \notin KnownPrimaries =>
         (~ret.ok /\ ret.err \in UnknownModeErrors)
    /\ (call.ts.primary = "exif" /\
        call.ts.fallback_mode \notin KnownFallbackModes) =>
         (~ret.ok /\ ret.err \in UnknownModeErrors)

\* the three date tags in the order they are tried
TagsInOrder(f) == <<f.orig, f.digi, f.dt>>

\* C17: with primary "exif" the tags are tried in the order original
\* capture, digitized, generic modification time and the first one that
\* parses wins: when some tag parses, extract returns the value of the
\* first such tag, also when an earlier tag is present but unparsable, and
\* the fallback branch is not taken.
C17_FirstParsableTagWins ==
  (Extracted /\ call.ts.primary = "exif" /\ call.f.exif_loads) =>
    LET tags == TagsInOrder(call.f)
        parsable == { k \in 1..3 : tags[k].fmt = ExifFormat }
    IN parsable # {} =>
         LET first == CHOOSE k \in parsable : \A j \in parsable : k <= j
         IN ret = Ok(DateTime(tags[first].d, tags[first].t))

\* the failures that reject custom_time: it is empty, or matches no layout
InvalidCustomTimeErrors == {"CustomTimeNotSet", "InvalidCustomTime"}

\* custom_time is consulted: on the primary "custom" path, or on the
\* fallback "custom" path of a file without EXIF time
OnPrimaryCustomPath == call.ts.primary = "custom"
OnFallbackCustomPath ==
  /\ call.ts.primary = "exif"
  /\ call.ts.fallback_mode = "custom"
  /\ ExifTimes(call.f) = {}

\* what custom_time alone determines: the time it spells in the full
\* layout, else at midnight in the date-only layout, else a rejection
CustomOutcome(s) ==
  IF s.fmt = "%Y-%m-%d %H:%M:%S" THEN Ok(DateTime(s.d, s.t))
  ELSE IF s.fmt = "%Y-%m-%d" THEN Ok(DateTime(s.d, 0))
  ELSE IF s = EmptyStr THEN Fail("CustomTimeNotSet")
  ELSE Fail("InvalidCustomTime")

\* C18: whenever custom_time is consulted it is parsed as
\* "YYYY-MM-DD HH:MM:SS", else as "YYYY-MM-DD"; an empty value or one
\* matching neither layout is rejected with an invalid-custom-time failure;
\* the outcome is determined by custom_time alone, so the primary and the
\* fallback path agree on it.
C18_CustomTimeParsing ==
  (Extracted /\ (OnPrimaryCustomPath \/ OnFallbackCustomPath)) =>
    /\ ret = CustomOutcome(call.ts.custom_time)
    /\ ~ret.ok => ret.err \in InvalidCustomTimeErrors

\* the fallback path parsed a date-only custom_time to midnight of that day
C18_Witness ==
  /\ Extracted
  /\ OnFallbackCustomPath
  /\ call.ts.custom_time = Str("%Y-%m-%d", 6, 6)
  /\ ret = Ok(DateTime(6, 0))

\* C19: with primary "file_modified" or "file_created" the outcome is the
\* named stat() time (birth time, or metadata-change time without it) and
\* nothing else: it is the same for every fallback_mode, custom_time and
\* EXIF content, and a failing stat() is raised, not replaced by a fallback.
C19_FilePrimaryReadsDirectly ==
  (Extracted /\ call.ts.primary \in {"file_modified", "file_created"}) =>
    ret = IF ~call.f.stat_ok THEN Fail("OSError")
          ELSE IF call.ts.primary = "file_modified" THEN Ok(call.f.mtime)
          ELSE IF call.ts.has_birthtime THEN Ok(call.f.birthtime)
          ELSE Ok(call.f.ctime)

\* stat() failed on a file that carries EXIF time, with a usable custom
\* fallback configured: the failure came out
C19_Witness ==
  /\ Extracted
  /\ call.ts.primary = "file_created"
  /\ call.ts.fallback_mode = "custom"
  /\ call.ts.custom_time = Str("%Y-%m-%d %H:%M:%S", 5, 5)
  /\ ExifTimes(call.f) # {}
  /\ ~call.f.stat_ok
  /\ ret = Fail("OSError")

\* ------------------------------ StyleManager.load_style on a changing store
\* what a definition file can be: missing, unparsable, complete at revision
\* 1 or 2, or lacking sections
StyleFiles ==
  { NoFile, StyleFile(TRUE, FALSE, <<>>),
    FileWith(Sections, 1), FileWith(Sections, 2),
    FileWith(Sections \ {"effects"}, 1), FileWith({"font"}, 2) }

\* a fresh StyleManager over any store
InitStyle ==
  /\ store \in [StyleNames -> StyleFiles]
  /\ call = NoCall
  /\ ret = NoCall
  /\ UiIdle
  /\ BatchUnused

\* a caller runs load_style(name) to its return or its raise
LoadStyleCall(name) ==
  LET r == load_style_from(store[name], styles_cache, name)
  IN /\ call' = [op |-> "load_style", name |-> name]
     /\ ret' = [ok |-> r.ok, style |-> r.style, err |-> r.err,
                read |-> r.read]
     /\ styles_cache' = r.cache
     /\ UNCHANGED <<batch_rest, store, ui_vars>>

\* the definition file of a name is edited, created or removed on disk
EditStore(name, file) ==
  /\ file # store[name]
  /\ store' = [store EXCEPT ![name] = file]
  /\ call' = [op |-> "edit", name |-> name]
  /\ ret' = NoCall
  /\ UNCHANGED <<batch_vars, ui_vars>>

NextStyle ==
  \/ \E name \in StyleNames : LoadStyleCall(name)
  \/ \E name \in StyleNames, file \in StyleFiles : EditStore(name, file)

SpecStyle == InitStyle /\ [][NextStyle]_vars

\* C14: a name that has been loaded is never read from disk again.  Once a
\* name is in the cache its cached Style stays what it is, and every later
\* load_style of that name returns that Style without calling ss.read,
\* whatever the definition on disk has become.
C14_LoadedOnce ==
  [][\A n \in DOMAIN styles_cache :
       /\ n \in DOMAIN styles_cache'
       /\ styles_cache'[n] = styles_cache[n]
       /\ (call'.op = "load_style" /\ call'.name = n) =>
            /\ ret'.ok
            /\ ret'.style = styles_cache[n]
            /\ ~ret'.read]_vars

\* load_style answered from the cache with the style of revision 1 while
\* the file on disk is at revision 2
C14_Witness ==
  /\ call = [op |-> "load_style", name |-> "CANON"]
  /\ ret.ok
  /\ ~ret.read
  /\ ret.style = [x \in Sections |-> Section(1)]
  /\ store["CANON"] = FileWith(Sections, 2)

\* the Style of a definition with every missing section an empty mapping
Defaulted(defn) ==
  [x \in Sections |-> IF x \in DOMAIN defn THEN defn[x] ELSE EmptyMapping]

\* C20: load_style of a name that is not cached, on an existing, parsable
\* definition that lacks some of the five sections, succeeds: it returns
\* and caches the Style in which each missing section is an empty mapping.
C20_MissingSectionsDefault ==
  LET disk == store[call.name]
  IN (/\ call.op = "load_style"
      /\ ret.read
      /\ disk.wellformed
      /\ ~(Sections \subseteq DOMAIN disk.defn)) =>
       /\ ret.ok
       /\ ret.style = Defaulted(disk.defn)
       /\ call.name \in DOMAIN styles_cache
       /\ styles_cache[call.name] = ret.style

\* ------------------------------------------ output path synthesis on any input
\* filename patterns: without {index}, with it, with it twice and alone
Patterns ==
  { <<"{original}", "_stamped">>, <<"{date}", "_", "{index}">>,
    <<"{index}", "-", "{time}", "-", "{index}">>, <<"{index}">> }

AnyOutputs ==
  [same_directory : BOOLEAN, custom_directory : {"", "out"},
   filename_pattern : Patterns, preserve_exif : {TRUE},
   overwrite_existing : {FALSE}]

\* batch positions on both sides of every change of width
Positions == {1, 9, 10, 99, 100, 999, 1000, 1001, 12345}

\* the two generators, about to be called on any configuration and file
InitPath ==
  /\ \/ call \in [op : {"generate_output_path"}, output : AnyOutputs,
                  f : {File(n) : n \in FileNames},
                  timestamp : {DateTime(1, 1), DateTime(3, 1)}]
     \/ call \in [op : {"generate_indexed_output_path"},
                  config : [time_source : TimeSources, output : AnyOutputs],
                  f : {File(n) : n \in FileNames},
                  index : Positions,
                  now : {NowTime, DateTime(9, 8)}]
  /\ ret = NoCall
  /\ store = [n \in StyleNames |-> StyleOnDisk(n)]
  /\ UiIdle
  /\ BatchUnused

\* ImageProcessor.generate_output_path returns
GenerateOutputPath ==
  /\ call.op = "generate_output_path"
  /\ ret = NoCall
  /\ ret' = generate_output_path(call.output, call.f, call.timestamp)
  /\ UNCHANGED <<batch_vars, call, store, ui_vars>>

\* BatchProcessor._generate_indexed_output_path returns
GenerateIndexedOutputPath ==
  /\ call.op = "generate_indexed_output_path"
  /\ ret = NoCall
  /\ ret' = generate_indexed_output_path_at(call.config, call.f, call.index,
                                            call.now)
  /\ UNCHANGED <<batch_vars, call, store, ui_vars>>

NextPath == GenerateOutputPath \/ GenerateIndexedOutputPath

SpecPath == InitPath /\ [][NextPath]_vars

\* a path generator has returned
Pathed ==
  call.op \in {"generate_output_path", "generate_indexed_output_path"}
  /\ ret # NoCall

\* what the call was given: its output section, its position (1 outside a
\* batch) and the timestamp it formats (inside a batch the extracted one,
\* or the current time when extraction fails)
PathOutput ==
  IF call.op = "generate_output_path" THEN call.output ELSE call.config.output
PathPosition == IF call.op = "generate_output_path" THEN 1 ELSE call.index
PathTimestamp ==
  IF call.op = "generate_output_path" THEN call.timestamp
  ELSE LET e == extract(call.config.time_source, call.f)
       IN IF e.ok THEN e.val ELSE call.now

\* the digit strings the path carries in place of {index}
IndexFields ==
  { ret.filename[k][2] :
      k \in { j \in 1..Len(ret.filename) : ret.filename[j][1] = "index" } }

\* the other fields are the input's stem and the timestamp's date and time
OtherFieldsFormatted ==
  LET pattern == PathOutput.filename_pattern
  IN /\ Len(ret.filename) = Len(pattern)
     /\ \A k \in 1..Len(pattern) :
          /\ pattern[k] = "{index}" <=> ret.filename[k][1] = "index"
          /\ pattern[k] = "{original}" =>
               ret.filename[k] = <<"original", call.f.stem>>
          /\ pattern[k] = "{date}" =>
               ret.filename[k] = <<"date", PathTimestamp.d>>
          /\ pattern[k] = "{time}" =>
               ret.filename[k] = <<"time", PathTimestamp.t>>

\* C15 as stated: the path keeps the input's extension, is formatted from
\* the configuration, the input path, the timestamp and the position alone,
\* and every {index} is exactly three zero-padded digits spelling the
\* position, also above 999 ("001" outside a batch).
C15_IndexExactlyThreeDigits ==
  Pathed =>
    /\ ret.suffix = call.f.suffix
    /\ OtherFieldsFormatted
    /\ \A ds \in IndexFields :
         Len(ds) = 3 /\ DigitsValue(ds) = PathPosition

\* C15, amended: the path keeps the input's extension, is formatted from
\* the configuration, the input path, the timestamp and the position alone,
\* and every {index} is the position in decimal, zero-padded to at least
\* three digits: exactly three up to 999, all its digits and no leading
\* zero above ("001" outside a batch, where the indexed generator at
\* position 1 gives the same path).
C15_IndexAtLeastThreeDigits ==
  Pathed =>
    /\ ret.suffix = call.f.suffix
    /\ OtherFieldsFormatted
    /\ \A ds \in IndexFields :
         /\ DigitsValue(ds) = PathPosition
         /\ \A k \in 1..Len(ds) : ds[k] \in 0..9
         /\ IF PathPosition <= 999 THEN Len(ds) = 3
            ELSE Len(ds) > 3 /\ ds[1] # 0
    /\ call.op = "generate_output_path" => IndexFields \subseteq {<<0, 0, 1>>}
    /\ (call.op = "generate_indexed_output_path" /\ call.index = 1) =>
         ret = generate_output_path(call.config.output, call.f, PathTimestamp)

\* position 1000 of a batch, formatted with a pattern that names {index}
C15_Witness ==
  /\ Pathed
  /\ call.op = "generate_indexed_output_path"
  /\ call.index = 1000
  /\ IndexFields = {<<1, 0, 0, 0>>}

\* ------------------------------------- MainWindow and its worker threads
\* MainWindow owns one StyleManager (styles_cache is its cache).  Every
\* batch gets a new BatchProcessor and a new ProcessingThread, both built on
\* that StyleManager; the UI thread uses it for the effect preview.  A
\* worker calls load_style once up front and once per item; a call that
\* misses the cache reads the definition and then writes the cache.
LastStyle == "CANON"

\* a ProcessingThread: where its run() stands, how many load_style calls
\* its batch still has to make, and whether the current one hit the cache
Thread(at, left, hit) == [pc |-> at, left |-> left, hit |-> hit]

\* the cache after load_style(LastStyle) stored what it read
CacheAfterRead ==
  LET r == load_style(<<>>, LastStyle)
  IN [n \in DOMAIN styles_cache \cup {LastStyle} |->
        IF n = LastStyle THEN r.style ELSE styles_cache[n]]

InitUI ==
  /\ UiIdle
  /\ FnIdle
  /\ BatchUnused

\* _start_processing / _start_processing_with_files, from the Ctrl+Return
\* shortcut, the menu or the page: a new thread over n files is started
\* and the overlay is shown, whatever earlier threads are doing
StartProcessing ==
  /\ ui_pc = "idle"
  /\ Len(threads) < MaxThreads
  /\ \E n \in 1..MaxPaths :
       threads' = Append(threads, Thread("started", n + 1, FALSE))
  /\ overlay' = TRUE
  /\ UNCHANGED <<batch_vars, fn_vars, ui_pc>>

\* worker t enters load_style: the cache lookup
WorkerEntersLoadStyle(t) ==
  /\ threads[t].pc \in {"started", "running"}
  /\ threads[t].left > 0
  /\ threads' = [threads EXCEPT ![t] =
                   Thread("in_load_style", threads[t].left - 1,
                          LastStyle \in DOMAIN styles_cache)]
  /\ UNCHANGED <<batch_vars, fn_vars, overlay, ui_pc>>

\* worker t leaves load_style: after a miss, the style read is stored
WorkerLeavesLoadStyle(t) ==
  /\ threads[t].pc = "in_load_style"
  /\ threads' = [threads EXCEPT ![t].pc = "running"]
  /\ styles_cache' = IF threads[t].hit THEN styles_cache ELSE CacheAfterRead
  /\ UNCHANGED <<batch_rest, fn_vars, overlay, ui_pc>>

\* process_batch of worker t returns and run() emits finished
WorkerEmitsFinished(t) ==
  /\ threads[t].pc = "running"
  /\ threads[t].left = 0
  /\ threads' = [threads EXCEPT ![t].pc = "emitted"]
  /\ UNCHANGED <<batch_vars, fn_vars, overlay, ui_pc>>

\* _on_finished for worker t, on the UI thread: the overlay is hidden
OnFinished(t) ==
  /\ ui_pc = "idle"
  /\ threads[t].pc = "emitted"
  /\ threads' = [threads EXCEPT ![t].pc = "done"]
  /\ overlay' = FALSE
  /\ UNCHANGED <<batch_vars, fn_vars, ui_pc>>

\* the page calls selectFile (a click on a file, or a change of style),
\* which it can only do while the overlay does not cover it;
\* _update_preview enters load_style on the UI thread
SelectFile ==
  /\ ui_pc = "idle"
  /\ ~overlay
  /\ ui_pc' = IF LastStyle \in DOMAIN styles_cache THEN "in_load_style_hit"
              ELSE "in_load_style_miss"
  /\ UNCHANGED <<batch_vars, fn_vars, threads, overlay>>

\* the UI thread leaves load_style
PreviewLeavesLoadStyle ==
  /\ ui_pc \in {"in_load_style_hit", "in_load_style_miss"}
  /\ ui_pc' = "idle"
  /\ styles_cache' = IF ui_pc = "in_load_style_hit" THEN styles_cache
                     ELSE CacheAfterRead
  /\ UNCHANGED <<batch_rest, fn_vars, threads, overlay>>

NextUI ==
  \/ StartProcessing
  \/ \E t \in 1..Len(threads) : WorkerEntersLoadStyle(t)
  \/ \E t \in 1..Len(threads) : WorkerLeavesLoadStyle(t)
  \/ \E t \in 1..Len(threads) : WorkerEmitsFinished(t)
  \/ \E t \in 1..Len(threads) : OnFinished(t)
  \/ SelectFile
  \/ PreviewLeavesLoadStyle

SpecUI == InitUI /\ [][NextUI]_vars

\* worker t is running process_batch
InProcessBatch(t) == threads[t].pc \in {"in_load_style", "running"}

\* C16: the StyleManager is used by one worker at a time.  While a worker
\* thread is running process_batch, no other worker is running process_batch
\* or is inside load_style on the same StyleManager, and the UI thread is
\* not inside load_style either.
C16_OneWorkerPerStyleManager ==
  \A t \in 1..Len(threads) :
    InProcessBatch(t) =>
      /\ \A u \in 1..Len(threads) : u # t => ~InProcessBatch(u)
      /\ ui_pc = "idle"

\* ------------------------------------------ StyleManager.list_styles
\* base names a styles directory can hold: two brands and two others
ListedNames == {"NIKON", "CANON", "zeta", "alpha"}

\* what one glob can yield: up to three distinct stems in any order
GlobResults ==
  { seq \in UNION { [1..k -> ListedNames] : k \in 0..3 } :
      \A a, b \in 1..Len(seq) : a # b => seq[a] # seq[b] }

\* a StyleManager over any styles directory, about to list it
InitList ==
  /\ call \in [op : {"list_styles"}, yml : GlobResults, yaml : GlobResults]
  /\ ret = NoCall
  /\ store = [n \in StyleNames |-> StyleOnDisk(n)]
  /\ UiIdle
  /\ BatchUnused

\* list_styles() returns; the manager's cache is not touched
ListStyles ==
  /\ call.op = "list_styles"
  /\ ret = NoCall
  /\ ret' = [names |-> list_styles(call.yml, call.yaml)]
  /\ UNCHANGED <<batch_vars, call, store, ui_vars>>

SpecList == InitList /\ [][ListStyles]_vars

Listed == call.op = "list_styles" /\ ret # NoCall

\* position of a name in a sequence that holds it (its first one)
FirstIndex(seq, name) ==
  CHOOSE k \in 1..Len(seq) :
    seq[k] = name /\ \A j \in 1..(k - 1) : seq[j] # name

\* C21: list_styles returns every discovered base name exactly once, also
\* a name found under both extensions; the names of the brand list come
\* first, in the order of that list, and the others follow in the order
\* they were discovered (.yml before .yaml).  The result is a function of
\* the directory listing alone and the call leaves the manager's cache
\* as it was.
C21_ListStylesOrder ==
  Listed =>
    LET found == call.yml \o call.yaml
        IsBrand(name) == name \in Range(BrandOrder)
        r == ret.names
    IN /\ Range(r) = Range(found)
       /\ \A a, b \in 1..Len(r) : a < b =>
            /\ r[a] # r[b]
            /\ IsBrand(r[b]) => IsBrand(r[a])
            /\ (IsBrand(r[a]) /\ IsBrand(r[b])) =>
                 FirstIndex(BrandOrder, r[a]) < FirstIndex(BrandOrder, r[b])
            /\ (~IsBrand(r[a]) /\ ~IsBrand(r[b])) =>
                 FirstIndex(found, r[a]) < FirstIndex(found, r[b])
       /\ styles_cache = <<>>

\* "zeta" exists under both extensions and the brands were discovered in
\* the reverse of their priority
C21_Witness ==
  /\ Listed
  /\ call.yml = <<"zeta", "NIKON", "CANON">>
  /\ call.yaml = <<"alpha", "zeta">>
  /\ ret.names = <<"CANON", "NIKON", "zeta", "alpha">>

\* ------------------------------------------------------ font resolution
\* What the fonts directory holds for one font file name: in_mapping (the
\* name is a key of FONT_MAPPING), mapped_exists (the mapped path exists),
\* direct_exists (fonts_dir / name exists), search (the suffixes of the
\* paths rglob yields for the stem, in order), loads (ImageFont.truetype
\* succeeds on the path that is chosen).
FontDir(in_mapping, mapped_exists, direct_exists, search, loads) ==
  [in_mapping |-> in_mapping, mapped_exists |-> mapped_exists,
   direct_exists |-> direct_exists, search |-> search, loads |-> loads]

\* path.suffix.lower()
Lower(suffix) ==
  CASE suffix = ".TTF" -> ".ttf"
    [] suffix = ".OTF" -> ".otf"
    [] OTHER -> suffix

NoFontPath == <<"none">>

\* the first path of the recursive search that has a font suffix
RECURSIVE SearchFrom(_, _)
SearchFrom(search, k) ==
  IF k > Len(search) THEN NoFontPath
  ELSE IF Lower(search[k]) \in {".ttf", ".otf"} THEN <<"search", k>>
  ELSE SearchFrom(search, k + 1)

\* StyleManager.get_font_path(font_file): the path chosen, or None
get_font_path(dir) ==
  IF dir.in_mapping /\ dir.mapped_exists THEN <<"mapped">>
  ELSE IF dir.direct_exists THEN <<"direct">>
  ELSE SearchFrom(dir.search, 1)

DefaultFont == [kind |-> "default", path |-> NoFontPath, size |-> 0]
TrueType(path, size) == [kind |-> "truetype", path |-> path, size |-> size]
FontRaised == [kind |-> "raised", path |-> NoFontPath, size |-> 0]

\* cache_key = f"{font_file}_{size}"
CacheKey(font_file, size) == <<font_file, size>>

FontResult(font, cache) == [font |-> font, cache |-> cache]

\* mutation of get_font: a font that fails to load is not replaced
get_font_NoFallback(cache, dir, font_file, size) ==
  LET cache_key == CacheKey(font_file, size)
      font_path == get_font_path(dir)
      font == IF font_path # NoFontPath
              THEN IF dir.loads THEN TrueType(font_path, size) ELSE FontRaised
              ELSE DefaultFont
  IN IF cache_key \in DOMAIN cache
     THEN FontResult(cache[cache_key], cache)
     ELSE IF font = FontRaised THEN FontResult(FontRaised, cache)
     ELSE FontResult(font,
                     [k \in DOMAIN cache \cup {cache_key} |->
                        IF k = cache_key THEN font ELSE cache[k]])

\* WatermarkRenderer._get_font(size) for the style's font file on the font
\* cache `cache`: the font returned and the cache afterwards
get_font(cache, dir, font_file, size) ==
  LET cache_key == CacheKey(font_file, size)
      font_path == get_font_path(dir)
      font == IF font_path # NoFontPath
              THEN IF dir.loads THEN TrueType(font_path, size)
                   ELSE DefaultFont
              ELSE DefaultFont
  IN IF cache_key \in DOMAIN cache
     THEN FontResult(cache[cache_key], cache)
     ELSE FontResult(font,
                     [k \in DOMAIN cache \cup {cache_key} |->
                        IF k = cache_key THEN font ELSE cache[k]])

FontFiles == {"Courier-Prime.ttf", "missing.ttf"}
FontSizes == {12, 40}
FontDirs ==
  { FontDir(m, me, d, se, l) :
      m \in BOOLEAN, me \in BOOLEAN, d \in BOOLEAN,
      se \in {<<>>, <<".txt">>, <<".txt", ".OTF">>, <<".ttf", ".txt">>},
      l \in BOOLEAN }

\* the font caches a renderer can hold before the call: empty, or holding
\* one earlier result
FontCaches ==
  {<<>>} \cup
  UNION { { [k \in {CacheKey(ff, sz)} |-> font] :
              font \in {DefaultFont, TrueType(<<"direct">>, sz)} } :
          ff \in FontFiles, sz \in FontSizes }

InitFont ==
  /\ call \in [op : {"get_font"}, cache : FontCaches, dir : FontDirs,
                font_file : FontFiles, size : FontSizes]
  /\ ret = NoCall
  /\ store = [n \in StyleNames |-> StyleOnDisk(n)]
  /\ UiIdle
  /\ BatchUnused

\* _get_font(size) returns
GetFont ==
  /\ call.op = "get_font"
  /\ ret = NoCall
  /\ ret' = get_font(call.cache, call.dir, call.font_file, call.size)
  /\ UNCHANGED <<batch_vars, call, store, ui_vars>>

SpecFont == InitFont /\ [][GetFont]_vars

FontGot == call.op = "get_font" /\ ret # NoCall

\* the path the three lookups give, in their order of priority
ExpectedFontPath(dir) ==
  IF dir.in_mapping /\ dir.mapped_exists THEN <<"mapped">>
  ELSE IF dir.direct_exists THEN <<"direct">>
  ELSE LET hits == { k \in 1..Len(dir.search) :
                       dir.search[k] \in {".ttf", ".otf", ".TTF", ".OTF"} }
       IN IF hits = {} THEN NoFontPath
          ELSE <<"search", CHOOSE k \in hits : \A j \in hits : k <= j>>

\* C22: font resolution never fails.  get_font_path gives the mapped path,
\* else the direct path, else the first font found by the search, else
\* none; _get_font returns a usable font in every case: the cached one for
\* a cached (font file, size), else the font loaded from the resolved
\* path, else (nothing resolved, or the load failed) the built-in default;
\* and the font returned is in the cache under (font file, size).
C22_FontAlwaysResolves ==
  FontGot =>
    LET key == CacheKey(call.font_file, call.size)
    IN /\ get_font_path(call.dir) = ExpectedFontPath(call.dir)
       /\ ret.font.kind \in {"truetype", "default"}
       /\ key \in DOMAIN ret.cache
       /\ ret.cache[key] = ret.font
       /\ \A k \in DOMAIN call.cache :
            k \in DOMAIN ret.cache /\ ret.cache[k] = call.cache[k]
       /\ IF key \in DOMAIN call.cache THEN ret.font = call.cache[key]
          ELSE IF ExpectedFontPath(call.dir) # NoFontPath /\ call.dir.loads
          THEN ret.font = TrueType(ExpectedFontPath(call.dir), call.size)
          ELSE ret.font = DefaultFont

\* the search resolved a font file that then failed to load: the default
\* font was returned and cached
C22_Witness ==
  /\ FontGot
  /\ call.cache = <<>>
  /\ get_font_path(call.dir) = <<"search", 2>>
  /\ ~call.dir.loads
  /\ ret.font = DefaultFont
  /\ ret.cache[CacheKey(call.font_file, call.size)] = DefaultFont

\* ------------------------------------------------------------ font size
\* A ratio is a fraction num / den with den > 0.
Ratio(num, den) == [num |-> num, den |-> den]

\* int(n / d) for d > 0: the quotient truncated towards zero
IntOf(n, d) == IF n >= 0 THEN n \div d ELSE -((-n) \div d)

Min2(a, b) == IF a <= b THEN a ELSE b
Max2(a, b) == IF a >= b THEN a ELSE b

\* mutation of calculate_font_size: no floor of 12
calculate_font_size_NoFloor(image_size, size_ratio) ==
  IntOf(Min2(image_size[1], image_size[2]) * size_ratio.num, size_ratio.den)

\* WatermarkRenderer._calculate_font_size(image_size) for the style's
\* font.size_ratio
calculate_font_size(image_size, size_ratio) ==
  LET short_edge == Min2(image_size[1], image_size[2])
      font_size == IntOf(short_edge * size_ratio.num, size_ratio.den)
  IN Max2(font_size, 12)

\* image edges around the point where 0.025 * edge passes 12, and beyond
Edges == {1, 100, 479, 480, 481, 520, 4000}
SizeRatios ==
  { Ratio(25, 1000), Ratio(0, 1), Ratio(-1, 2), Ratio(1, 1), Ratio(3, 100) }

\* one style applied to two images
InitFontSize ==
  /\ call \in [op : {"calculate_font_size"}, image_size : Edges \X Edges,
                other_size : Edges \X Edges, size_ratio : SizeRatios]
  /\ ret = NoCall
  /\ store = [n \in StyleNames |-> StyleOnDisk(n)]
  /\ UiIdle
  /\ BatchUnused

\* _calculate_font_size returns for both images
CalculateFontSize ==
  /\ call.op = "calculate_font_size"
  /\ ret = NoCall
  /\ ret' = [size |-> calculate_font_size(call.image_size, call.size_ratio),
             other |-> calculate_font_size(call.other_size, call.size_ratio)]
  /\ UNCHANGED <<batch_vars, call, store, ui_vars>>

SpecFontSize == InitFontSize /\ [][CalculateFontSize]_vars

\* the smaller dimension of an image
ShortEdge(size) == IF size[1] < size[2] THEN size[1] ELSE size[2]

\* C23: the font size is max(12, floor(short_edge * size_ratio)) with
\* short_edge the smaller image dimension; it is never below 12, and for a
\* non-negative size_ratio an image with a longer short edge never gets a
\* smaller font.
C23_FontSizeFormula ==
  (call.op = "calculate_font_size" /\ ret # NoCall) =>
    LET floored == (ShortEdge(call.image_size) * call.size_ratio.num)
                     \div call.size_ratio.den
    IN /\ ret.size = IF floored > 12 THEN floored ELSE 12
       /\ ret.size >= 12
       /\ ret.other >= 12
       /\ (call.size_ratio.num >= 0 /\
           ShortEdge(call.image_size) <= ShortEdge(call.other_size)) =>
            ret.size <= ret.other

\* a 4000 x 520 image gets size 13 and a 481 x 481 image the floor of 12
C23_Witness ==
  /\ call.op = "calculate_font_size"
  /\ ret # NoCall
  /\ call.size_ratio = Ratio(25, 1000)
  /\ call.image_size = <<481, 481>>
  /\ call.other_size = <<4000, 520>>
  /\ ret.size = 12
  /\ ret.other = 13

\* ------------------------------------------------------ watermark position
\* the position section of a style
Position(anchor, margin_x_ratio, margin_y_ratio) ==
  [anchor |-> anchor, margin_x_ratio |-> margin_x_ratio,
   margin_y_ratio |-> margin_y_ratio]

\* mutation of calculate_position: an unknown anchor is put top-left
calculate_position_UnknownTopLeft(image_size, text_size, position) ==
  LET width == image_size[1]
      height == image_size[2]
      text_width == text_size[1]
      text_height == text_size[2]
      margin_x == IntOf(width * position.margin_x_ratio.num,
                        position.margin_x_ratio.den)
      margin_y == IntOf(height * position.margin_y_ratio.num,
                        position.margin_y_ratio.den)
  IN IF position.anchor = "bottom-right"
     THEN <<width - text_width - margin_x, height - text_height - margin_y>>
     ELSE IF position.anchor = "bottom-left"
     THEN <<margin_x, height - text_height - margin_y>>
     ELSE IF position.anchor = "top-right"
     THEN <<width - text_width - margin_x, margin_y>>
     ELSE <<margin_x, margin_y>>

\* WatermarkRenderer._calculate_position(image_size, text_size) for the
\* style's position section
calculate_position(image_size, text_size, position) ==
  LET width == image_size[1]
      height == image_size[2]
      text_width == text_size[1]
      text_height == text_size[2]
      margin_x == IntOf(width * position.margin_x_ratio.num,
                        position.margin_x_ratio.den)
      margin_y == IntOf(height * position.margin_y_ratio.num,
                        position.margin_y_ratio.den)
  IN IF position.anchor = "bottom-right"
     THEN <<width - text_width - margin_x, height - text_height - margin_y>>
     ELSE IF position.anchor = "bottom-left"
     THEN <<margin_x, height - text_height - margin_y>>
     ELSE IF position.anchor = "top-right"
     THEN <<width - text_width - margin_x, margin_y>>
     ELSE IF position.anchor = "top-left"
     THEN <<margin_x, margin_y>>
     ELSE <<width - text_width - margin_x, height - text_height - margin_y>>

\* the four named anchors and a value that is none of them
Anchors == {"bottom-right", "bottom-left", "top-right", "top-left", "center"}
MarginRatios == { Ratio(2, 100), Ratio(0, 1), Ratio(1, 10) }
ImageEdges == {100, 250}
\* text extents: small, filling the image up to one margin, up to the
\* edge, and larger than the image
TextExtents == {10, 90, 100, 300}

InitPosition ==
  /\ call \in [op : {"calculate_position"},
                image_size : ImageEdges \X ImageEdges,
                text_size : TextExtents \X TextExtents,
                position : { Position(a, mx, my) :
                               a \in Anchors, mx \in MarginRatios,
                               my \in MarginRatios }]
  /\ ret = NoCall
  /\ store = [n \in StyleNames |-> StyleOnDisk(n)]
  /\ UiIdle
  /\ BatchUnused

\* _calculate_position returns
CalculatePosition ==
  /\ call.op = "calculate_position"
  /\ ret = NoCall
  /\ ret' = [xy |-> calculate_position(call.image_size, call.text_size,
                                        call.position)]
  /\ UNCHANGED <<batch_vars, call, store, ui_vars>>

SpecPosition == InitPosition /\ [][CalculatePosition]_vars

Positioned == call.op = "calculate_position" /\ ret # NoCall

\* the margins, in pixels
MarginX ==
  (call.image_size[1] * call.position.margin_x_ratio.num)
    \div call.position.margin_x_ratio.den
MarginY ==
  (call.image_size[2] * call.position.margin_y_ratio.num)
    \div call.position.margin_y_ratio.den

\* the text box lies inside the image inset by the margins
InsideInset ==
  /\ MarginX <= ret.xy[1]
  /\ ret.xy[1] + call.text_size[1] <= call.image_size[1] - MarginX
  /\ MarginY <= ret.xy[2]
  /\ ret.xy[2] + call.text_size[2] <= call.image_size[2] - MarginY

\* the text and one margin fit into the image, in both directions
FitsWithOneMargin ==
  /\ call.text_size[1] + MarginX <= call.image_size[1]
  /\ call.text_size[2] + MarginY <= call.image_size[2]

\* the text and both margins fit into the image, in both directions
FitsWithBothMargins ==
  /\ call.text_size[1] + 2 * MarginX <= call.image_size[1]
  /\ call.text_size[2] + 2 * MarginY <= call.image_size[2]

\* C24 as stated: for every anchor the text box lies fully inside the image
\* inset by the margins, and x >= 0 and y >= 0 whenever the text and one
\* margin fit into the image.
C24_AlwaysInsideInset ==
  Positioned =>
    /\ InsideInset
    /\ FitsWithOneMargin => (ret.xy[1] >= 0 /\ ret.xy[2] >= 0)

\* C24, amended: for every anchor (an unknown one is bottom-right) the text
\* box keeps exactly the margin to the sides it is anchored to; it lies
\* fully inside the image inset by the margins whenever the text and both
\* margins fit into the image, and x >= 0 and y >= 0 whenever the text and
\* one margin fit.
C24_InsideInsetWhenItFits ==
  Positioned =>
    LET right == call.position.anchor \notin {"bottom-left", "top-left"}
        bottom == call.position.anchor \notin {"top-right", "top-left"}
    IN /\ IF right
          THEN ret.xy[1] + call.text_size[1] = call.image_size[1] - MarginX
          ELSE ret.xy[1] = MarginX
       /\ IF bottom
          THEN ret.xy[2] + call.text_size[2] = call.image_size[2] - MarginY
          ELSE ret.xy[2] = MarginY
       /\ FitsWithBothMargins => InsideInset
       /\ FitsWithOneMargin => (ret.xy[1] >= 0 /\ ret.xy[2] >= 0)

\* an unknown anchor, and a text that fits with one margin but not with
\* two: the box touches the left and top edges of the image
C24_Witness ==
  /\ Positioned
  /\ call.position = Position("center", Ratio(1, 10), Ratio(1, 10))
  /\ call.image_size = <<100, 100>>
  /\ call.text_size = <<90, 90>>
  /\ ret.xy = <<0, 0>>

\* ---------------------------------------------------------- colour parsing
\* A colour string is a sequence of characters: a hex digit is modelled
\* by its value 0..15 and '#' by Hash.
Hash == 16
ColorStr(hash, digits) == IF hash THEN <<Hash>> \o digits ELSE digits

\* if color_str.startswith('#'): color_str = color_str[1:]
StripHash(color_str) ==
  IF color_str # <<>> /\ Head(color_str) = Hash THEN Tail(color_str)
  ELSE color_str

RGBA(r, g, b, a) == <<r, g, b, a>>

\* int(digits, 16) of a string of hex digits
RECURSIVE HexValue(_)
HexValue(digits) ==
  IF digits = <<>> THEN 0
  ELSE 16 * HexValue(SubSeq(digits, 1, Len(digits) - 1)) + digits[Len(digits)]

\* mutation of parse_color: a 3-digit nibble is not duplicated
parse_color_NibbleTimes16(color_str, opacity) ==
  LET ds == StripHash(color_str)
      a == IntOf(255 * opacity.num, opacity.den)
  IN IF Len(ds) = 6
     THEN RGBA(HexValue(SubSeq(ds, 1, 2)), HexValue(SubSeq(ds, 3, 4)),
               HexValue(SubSeq(ds, 5, 6)), a)
     ELSE IF Len(ds) = 3
     THEN RGBA(HexValue(<<ds[1]>>) * 16, HexValue(<<ds[2]>>) * 16,
               HexValue(<<ds[3]>>) * 16, a)
     ELSE RGBA(255, 255, 255, a)

\* WatermarkRenderer._parse_color(color_str, opacity)
parse_color(color_str, opacity) ==
  LET ds == StripHash(color_str)
      a == IntOf(255 * opacity.num, opacity.den)
  IN IF Len(ds) = 6
     THEN RGBA(HexValue(SubSeq(ds, 1, 2)), HexValue(SubSeq(ds, 3, 4)),
               HexValue(SubSeq(ds, 5, 6)), a)
     ELSE IF Len(ds) = 3
     THEN RGBA(HexValue(<<ds[1]>>) * 17, HexValue(<<ds[2]>>) * 17,
               HexValue(<<ds[3]>>) * 17, a)
     ELSE RGBA(255, 255, 255, a)

\* hex digits 0, a and f, in strings of up to seven digits
Nibbles == {0, 10, 15}
HexStrings == UNION { [1..k -> Nibbles] : k \in 0..7 }
\* opacity 1.0 (the default), the default shadow opacity 0.3, and 0
Opacities == { Ratio(1, 1), Ratio(3, 10), Ratio(0, 1) }

InitColor ==
  /\ \E h \in BOOLEAN, ds \in HexStrings, o \in Opacities :
       call = [op |-> "parse_color", color_str |-> ColorStr(h, ds),
               digits |-> ds, opacity |-> o]
  /\ ret = NoCall
  /\ store = [n \in StyleNames |-> StyleOnDisk(n)]
  /\ UiIdle
  /\ BatchUnused

\* _parse_color returns
ParseColor ==
  /\ call.op = "parse_color"
  /\ ret = NoCall
  /\ ret' = [rgba |-> parse_color(call.color_str, call.opacity)]
  /\ UNCHANGED <<batch_vars, call, store, ui_vars>>

SpecColor == InitColor /\ [][ParseColor]_vars

ColorParsed == call.op = "parse_color" /\ ret # NoCall

\* the channels a string of hex digits denotes: pairs of digits for six
\* digits, each digit doubled for three, white for any other length
DenotedRGB(ds) ==
  IF Len(ds) = 6
  THEN <<16 * ds[1] + ds[2], 16 * ds[3] + ds[4], 16 * ds[5] + ds[6]>>
  ELSE IF Len(ds) = 3
  THEN <<16 * ds[1] + ds[1], 16 * ds[2] + ds[2], 16 * ds[3] + ds[3]>>
  ELSE <<255, 255, 255>>

C26_CancelNeverLost ==
  (cancel_at = "called" /\ pc = "returned" /\ Len(image_paths) >= 1) =>
    Counted < Len(image_paths)
\* C27: at most one batch worker is running for a MainWindow.  Every
\* thread that has been started and has not left run() is the most recently
\* created one, the processing_thread that cancelProcessing and closeEvent
\* act on; no two threads are running at once.
IsRunning(t) == threads[t].pc \in {"started", "in_load_style", "running"}

C27_AtMostOneRunningWorker ==
  \A t \in 1..Len(threads) : IsRunning(t) => t = Len(threads)
\* ------------------------------------------- the signals of one run
\* the terminal signals among those a finished run emitted
Terminals ==
  { k \in 1..Len(ret.emitted) : ret.emitted[k].signal \in {"finished", "error"} }

\* C28: each run of ProcessingThread emits exactly one terminal signal,
\* after every progress and preview signal of the run: finished, carrying
\* the results, when process_batch returned, and error, carrying only the
\* message of the exception and not the tallies, when it raised.
C28_OneTerminalSignal ==
  ret.op = "run" =>
    LET last == ret.emitted[Len(ret.emitted)]
    IN /\ Terminals = {Len(ret.emitted)}
       /\ ret.ended = "returned" =>
            /\ last.signal = "finished"
            /\ last.results = ret.tallies
       /\ ret.ended = "raised" =>
            /\ last.signal = "error"
            /\ DOMAIN last = {"signal", "message"}
            /\ last.message # <<>>

\* a run that raised on its second item, after a progress signal and one
\* success: error is emitted last and the tallies stay behind
C28_Witness ==
  /\ ret.op = "run"
  /\ ret.ended = "raised"
  /\ ret.tallies.success = 1
  /\ ret.tallies.failed = 1
  /\ Len(ret.emitted) >= 2
  /\ ret.emitted[1].signal = "progress"
  /\ ret.emitted[Len(ret.emitted)].signal = "error"
\* --------------------------------------- names and rendered timestamps
\* extraction fails for item n of the running batch, so that path synthesis
\* puts datetime.now() into its name
NamedByNow(n) == ~extract(config.time_source, File(image_paths[n])).ok

\* the {date} and {time} fields of a file name spell timestamp ts
TokensSpell(filename, ts) ==
  \A k \in 1..Len(filename) :
    /\ filename[k][1] = "date" => filename[k][2] = ts.d
    /\ filename[k][1] = "time" => filename[k][2] = ts.t

\* C29: no output file is written under a name derived from the
\* datetime.now() substitute.  When extraction fails during path synthesis
\* for item n, process() for item n creates no directory and saves no
\* file, and the {date} and {time} tokens of every written file equal the
\* timestamp rendered into it.
C29_NoFileNamedByNow ==
  /\ \A n \in 1..Len(image_paths) :
        NamedByNow(n) =>
          EventsAt("mkdir", n) = {} /\ EventsAt("save", n) = {}
  /\ \A p \in DOMAIN fs : TokensSpell(p.filename, fs[p].ts)

\* item 2 was named with the substitute and its process() call raised at
\* extract, after item 1 was written under a name with a {date} token
C29_Witness ==
  /\ pc = "raised"
  /\ Len(image_paths) = 2
  /\ NamedByNow(2)
  /\ EventsAt("path", 2) # {}
  /\ \A k \in EventsAt("path", 2) :
        \E j \in 1..Len(log[k].arg.filename) :
          log[k].arg.filename[j] = <<"date", NowTime.d>>
  /\ EventsAt("extract", 2) # {}
  /\ EventsAt("save", 1) # {}
  /\ \E p \in DOMAIN fs :
        \E k \in 1..Len(p.filename) : p.filename[k][1] = "date"
\* ------------------------------------------------- the running tallies
\* the worker is in the loop of process_batch or has returned from it
InLoop == pc \in {"check", "progress", "preview", "path", "process", "returned"}

\* C30: throughout process_batch, after each loop iteration and at return,
\* the errors list has failed_count entries and success_count +
\* failed_count is the number of items whose processing has finished; the
\* counters never decrease while the invocation runs.
C30_TalliesConsistent ==
  /\ [](InLoop => /\ Len(results.errors) = results.failed
                  /\ Counted = i)
  /\ [][(pc \notin {"idle", "called", "emitted"} /\ pc' # "emitted") =>
           /\ results'.success >= results.success
           /\ results'.failed >= results.failed
           /\ Len(results'.errors) >= Len(results.errors)]_vars

\* a batch of two returned with one item written and one skipped
C30_Witness ==
  /\ pc = "returned"
  /\ i = 2
  /\ results.success = 1
  /\ results.failed = 1
  /\ Len(results.errors) = 1
====
